---- MODULE Spec2Model ----
(***************************************************************************)
(* Path-dependent Monte-Carlo option pricing: the OptionState recorder     *)
(* (part_001 "Solutions 3", with the is_payoff_active hook), its concrete   *)
(* subclasses (AsianState, MaxState of the lecture notebook s6_classes,     *)
(* BarrierState and the four barrier variants) and the Call payoff.         *)
(*                                                                         *)
(* Python values are modelled as tagged records [tag, num, den]:            *)
(*   None, True, False, a number num/den in lowest terms (statistics.mean   *)
(*   of integers is an exact rational), the float nan, or a raised          *)
(*   exception (the tag is the exception class).                            *)
(* The values of the underlying are integers (prices, all positive); the    *)
(* float nan, which np.sqrt gives for a negative time increment, is the     *)
(* integer `nan` among them.                                                *)
(***************************************************************************)
EXTENDS Integers, Sequences, FiniteSets, TLC

(* ---------------------------- bounds ----------------------------------- *)
\* fixing times and expiries are drawn from 1..MaxTime; a list of required
\* times has at most MaxTime entries
MaxTime == 2
\* underlying values are drawn from K..(K + MaxUp)
MaxUp == 3

\* n_paths is drawn from -1..MaxPaths
MaxPaths == 2

(* ------------------------ program constants ---------------------------- *)
\* K = 100, the strike of call_payoff = Call(K)
K == 100
\* S_0 = 100., the spot BlackScholesProcess(S_0, r, vol) starts from
S_0 == 100

(* ------------------------- Python values ------------------------------- *)
None == [tag |-> "None", num |-> 0, den |-> 1]
True == [tag |-> "True", num |-> 0, den |-> 1]
False == [tag |-> "False", num |-> 0, den |-> 1]
Bool(b) == IF b THEN True ELSE False
Raise(exc) == [tag |-> exc, num |-> 0, den |-> 1]
IsError(v) ==
    v.tag \in {"RuntimeError", "NotImplementedError", "TypeError", "ValueError",
               "ZeroDivisionError"}
IsNum(v) == v.tag = "num"
NaN == [tag |-> "nan", num |-> 0, den |-> 1]
\* the float nan as an element of a list of underlying values
nan == -1

RECURSIVE Gcd(_, _)
Gcd(a, b) == IF b = 0 THEN a ELSE Gcd(b, a % b)
Abs(x) == IF x < 0 THEN -x ELSE x
\* the number n/d (d > 0), in lowest terms
Num(n, d) ==
    LET g == Gcd(Abs(n), d)
    IN [tag |-> "num", num |-> n \div g, den |-> d \div g]
\* an underlying value as a Python value
Float(x) == IF x = nan THEN NaN ELSE Num(x, 1)
\* a < b, a > b, a <= b, a >= b on floats: every comparison with nan is false
lt(a, b) == a # nan /\ b # nan /\ a < b
gt(a, b) == a # nan /\ b # nan /\ a > b
le(a, b) == a # nan /\ b # nan /\ a <= b
ge(a, b) == a # nan /\ b # nan /\ a >= b

(* --------------------- builtins on Python lists ------------------------ *)
\* x in lst
In(x, lst) == \E i \in 1..Len(lst) : lst[i] = x

\* max(lst), lst non-empty: a left-to-right scan keeping the largest
RECURSIVE MaxFrom(_, _, _)
MaxFrom(lst, i, best) ==
    IF i > Len(lst) THEN best
    ELSE MaxFrom(lst, i + 1, IF gt(lst[i], best) THEN lst[i] ELSE best)
max(lst) == MaxFrom(lst, 2, lst[1])

\* min(lst), lst non-empty
RECURSIVE MinFrom(_, _, _)
MinFrom(lst, i, best) ==
    IF i > Len(lst) THEN best
    ELSE MinFrom(lst, i + 1, IF lt(lst[i], best) THEN lst[i] ELSE best)
min(lst) == MinFrom(lst, 2, lst[1])

RECURSIVE SumFrom(_, _)
SumFrom(lst, i) == IF i > Len(lst) THEN 0 ELSE lst[i] + SumFrom(lst, i + 1)
\* statistics.mean(lst), lst non-empty
mean(lst) ==
    IF \E i \in 1..Len(lst) : lst[i] = nan THEN NaN
    ELSE Num(SumFrom(lst, 1), Len(lst))

(* ------------------------------ state ---------------------------------- *)
VARIABLES
    kind,        \* the class of the option state object
    expiry,      \* self.expiry
    times,       \* self.times, the list of required fixing times
    barrier,     \* self.barrier (BarrierState and subclasses; 0 when absent)
    state_data,  \* self.state_data: [updates, underlying, state]
    last         \* the last call made on the object: [op, time, value, ret]

VARIABLES
    process_kind,   \* the class of the process object
    process_spot,   \* Process.spot, the starting value
    process_state,  \* Process.state: [spot, time]
    process_last    \* the last call made on the process: [op, time, norms, ret]

VARIABLES
    pc,           \* where mc_path_dependent stands
    n_paths,      \* the argument n_paths
    path_index,   \* the number of paths started by `for i in range(n_paths)`
    time_index,   \* the number of times consumed by `for t in times`
    std_norm,     \* the local std_norm of do_one_path
    St,           \* the local St of do_one_path
    running_sum,  \* the local running_sum
    path_values,  \* the path_value of every path so far
    result,       \* what mc_path_dependent returned or raised: [ret, df]
    trace,        \* the calls mc_path_dependent made in the current path
    n_draws       \* the number of np.random.normal() calls made so far

VARIABLES
    lecture       \* the lecture notebook's option state given the same calls: [sd, ret]

VARIABLES
    shared,       \* whether two running calls were given the same two objects
    objs,         \* the objects the calls were given: [state_data, process_state]
    loops         \* the locals of each of two running calls of mc_path_dependent

VARIABLES
    held,         \* a reference a caller took to self.state_data: [current, shows]
    process_held  \* a reference a caller took to Process.state: [current, shows]

option_vars == <<kind, expiry, times, barrier, state_data, last>>
process_vars == <<process_kind, process_spot, process_state, process_last>>
driver_vars == <<pc, n_paths, path_index, time_index, std_norm, St, running_sum, path_values, result, trace, n_draws>>
ref_vars == <<held, process_held>>
loop_vars == <<shared, objs, loops>>
scenario_vars == <<lecture, loop_vars>>
vars == <<option_vars, process_vars, driver_vars, ref_vars, scenario_vars>>

PlainKinds == {"OptionState", "AsianState", "MaxState"}
BarrierKinds == {"BarrierState", "UpAndOut", "DownAndOut", "UpAndIn", "DownAndIn"}
Kinds == PlainKinds \cup BarrierKinds

Times == 1..MaxTime
Values == K..(K + MaxUp)
\* the lists of required times: non-empty and ascending, as times = [1, 2, 3, 4, 5]
\* (the methods of OptionState only test membership in the list)
TimeLists ==
    {l \in UNION {[1..n -> Times] : n \in 1..MaxTime} :
        \A i, j \in 1..Len(l) : i < j => l[i] < l[j]}
\* the barrier level sits inside the value range and above the strike, so that
\* values occur below, on and above it and payoffs below it are not all zero
Barriers == {K + 2}

\* OptionState.StateData(updates, underlying, state)
StateData(updates, underlying, state) ==
    [updates |-> updates, underlying |-> underlying, state |-> state]

Call_(op, t, v, r) == [op |-> op, time |-> t, value |-> v, ret |-> r]

(* ----------------------------- payoff ---------------------------------- *)
\* Call.__call__: np.maximum(spot - self.strike, 0.); None - strike raises,
\* np.maximum(nan, 0.) is nan
Call(spot) ==
    IF spot = NaN THEN NaN
    ELSE IF ~IsNum(spot) THEN Raise("TypeError")
    ELSE IF spot.num - K * spot.den > 0
         THEN Num(spot.num - K * spot.den, spot.den)
         ELSE Num(0, 1)

(* ----------------------------- references ------------------------------ *)
\* A reference to an object a caller holds: `current` tells whether the object
\* is still the one the attribute is bound to, `shows` is <<contents>> of the
\* referenced object as the caller sees it now (<<>> when no reference is held).
NoReference == [current |-> FALSE, shows |-> <<>>]

\* rec = x.state_data (or snap = p.state): a reference to the bound object
reference_to(obj) == [current |-> TRUE, shows |-> <<obj>>]

\* an in-place change that copies the object first: the reference keeps
\* showing the old contents
after_mutation_of_copy(ref, obj) == [ref EXCEPT !.current = FALSE]

\* the bound object is changed in place (list.append, attribute assignment on
\* the object) and now has the contents obj: a reference to it shows them
after_mutation(ref, obj) ==
    IF ref.current THEN [ref EXCEPT !.shows = <<obj>>] ELSE ref

\* a rebinding that overwrites the fields of the bound object instead
after_rebinding_in_place(ref, obj) ==
    IF ref.current THEN [ref EXCEPT !.shows = <<obj>>] ELSE ref

\* the attribute is bound to a newly constructed object obj (self.state_data =
\* self.StateData(...), self.state = self.StateData(...)): a reference to the
\* old object keeps showing the old contents and is no longer current
after_rebinding(ref, obj) == [ref EXCEPT !.current = FALSE]

(* ------------------------- OptionState methods ------------------------- *)
\* has_expired with a strict comparison (an observation at expiry does not expire)
has_expired_strict(sd) ==
    IF Len(sd.updates) > 0
    THEN expiry < max(sd.updates)
    ELSE FALSE

\* has_expired looking at the last recorded time only instead of the maximum
has_expired_last(sd) ==
    IF Len(sd.updates) > 0
    THEN expiry <= sd.updates[Len(sd.updates)]
    ELSE FALSE

\* OptionState.has_expired
has_expired(sd) ==
    IF Len(sd.updates) > 0
    THEN expiry <= max(sd.updates)
    ELSE FALSE

\* calculate_state_variable returning the last recorded value in every class
calculate_state_variable_last(sd) ==
    CASE kind = "OptionState" -> Raise("NotImplementedError")
      [] OTHER -> Float(sd.underlying[Len(sd.underlying)])

\* calculate_state_variable of each class
calculate_state_variable(sd) ==
    CASE kind = "OptionState" -> Raise("NotImplementedError")
      [] kind = "AsianState" -> mean(sd.underlying)
      [] kind = "MaxState" -> Float(max(sd.underlying))
      [] OTHER -> Float(sd.underlying[Len(sd.underlying)])

\* update_state that computes the state variable on every accepted update
update_state_eager(sd) == calculate_state_variable(sd)

\* update_state that keeps a state variable once it is set
update_state_once(sd) ==
    IF has_expired(sd)
    THEN IF sd.state # None THEN sd.state ELSE calculate_state_variable(sd)
    ELSE None

\* OptionState.update_state
update_state(sd) ==
    IF has_expired(sd)
    THEN calculate_state_variable(sd)
    ELSE None

\* is_payoff_active with non-strict comparisons (touching the barrier counts
\* as staying inside for the out variants and as crossing for the in variants)
is_payoff_active_nonstrict(sd) ==
    CASE kind \in PlainKinds -> True
      [] kind = "BarrierState" -> Raise("NotImplementedError")
      [] OTHER ->
           IF Len(sd.underlying) = 0 THEN Raise("ValueError")
           ELSE CASE kind = "UpAndOut" -> Bool(le(max(sd.underlying), barrier))
                  [] kind = "DownAndOut" -> Bool(ge(min(sd.underlying), barrier))
                  [] kind = "UpAndIn" -> Bool(ge(max(sd.underlying), barrier))
                  [] kind = "DownAndIn" -> Bool(le(min(sd.underlying), barrier))

\* is_payoff_active that compares the value at expiry only, not the extremum
is_payoff_active_terminal(sd) ==
    CASE kind \in PlainKinds -> True
      [] kind = "BarrierState" -> Raise("NotImplementedError")
      [] OTHER ->
           IF Len(sd.underlying) = 0 THEN Raise("ValueError")
           ELSE LET term == sd.underlying[Len(sd.underlying)]
                IN CASE kind = "UpAndOut" -> Bool(lt(term, barrier))
                     [] kind = "DownAndOut" -> Bool(gt(term, barrier))
                     [] kind = "UpAndIn" -> Bool(gt(term, barrier))
                     [] kind = "DownAndIn" -> Bool(lt(term, barrier))

\* is_payoff_active where touching the barrier knocks the in variants in
is_payoff_active_of_touching_in(cls, sd) ==
    CASE cls \in PlainKinds -> True
      [] cls = "BarrierState" -> Raise("NotImplementedError")
      [] OTHER ->
           IF Len(sd.underlying) = 0 THEN Raise("ValueError")
           ELSE CASE cls = "UpAndOut" -> Bool(lt(max(sd.underlying), barrier))
                  [] cls = "DownAndOut" -> Bool(gt(min(sd.underlying), barrier))
                  [] cls = "UpAndIn" -> Bool(ge(max(sd.underlying), barrier))
                  [] cls = "DownAndIn" -> Bool(le(min(sd.underlying), barrier))

\* is_payoff_active of the class cls on the record sd; max()/min() of an empty
\* list raise ValueError
is_payoff_active_of(cls, sd) ==
    CASE cls \in PlainKinds -> True
      [] cls = "BarrierState" -> Raise("NotImplementedError")
      [] OTHER ->
           IF Len(sd.underlying) = 0 THEN Raise("ValueError")
           ELSE CASE cls = "UpAndOut" -> Bool(lt(max(sd.underlying), barrier))
                  [] cls = "DownAndOut" -> Bool(gt(min(sd.underlying), barrier))
                  [] cls = "UpAndIn" -> Bool(gt(max(sd.underlying), barrier))
                  [] cls = "DownAndIn" -> Bool(lt(min(sd.underlying), barrier))

\* an is_payoff_active whose default is False
is_payoff_active_default_false(sd) ==
    IF kind \in PlainKinds THEN False ELSE is_payoff_active_of(kind, sd)

\* is_payoff_active of the object's class
is_payoff_active(sd) == is_payoff_active_of(kind, sd)

\* OptionState.calculate_payoff with the is_payoff_active of the class cls
calculate_payoff_of(cls, sd) ==
    IF has_expired(sd)
    THEN LET active == is_payoff_active_of(cls, sd)
         IN IF IsError(active) THEN active
            ELSE IF active = True THEN Call(sd.state)
            ELSE Num(0, 1)
    ELSE Raise("RuntimeError")

\* calculate_payoff without the expiry check
calculate_payoff_unchecked(sd) ==
    LET active == is_payoff_active(sd)
    IN IF IsError(active) THEN active
       ELSE IF active = True THEN Call(sd.state)
       ELSE Num(0, 1)

\* calculate_payoff of the lecture notebook's first OptionState, which has no
\* is_payoff_active hook
calculate_payoff_always_active(sd) ==
    IF has_expired(sd)
    THEN Call(sd.state)
    ELSE Raise("RuntimeError")

\* OptionState.calculate_payoff: the value returned or the exception raised
calculate_payoff(sd) ==
    IF has_expired(sd)
    THEN LET active == is_payoff_active(sd)
         IN IF IsError(active) THEN active
            ELSE IF active = True THEN Call(sd.state)
            ELSE Num(0, 1)
    ELSE Raise("RuntimeError")

\* the guard of update without the test for an already recorded time
update_accepts_recorded(sd, time) == In(time, times)

\* the guard of update without the test for a required time
update_accepts_any_time(sd, time) == ~In(time, sd.updates)

\* the guard of OptionState.update
update_accepts(sd, time) == In(time, times) /\ ~In(time, sd.updates)

\* OptionState.update that records the first recorded value again instead of
\* the value passed
update_repeats_first_value(sd, time, underlying) ==
    IF update_accepts(sd, time)
    THEN LET appended == StateData(Append(sd.updates, time),
                                   Append(sd.underlying,
                                          IF Len(sd.underlying) > 0
                                          THEN sd.underlying[1] ELSE underlying),
                                   sd.state)
             s == update_state(appended)
         IN IF IsError(s)
            THEN [sd |-> appended, ret |-> s]
            ELSE [sd |-> StateData(appended.updates, appended.underlying, s),
                  ret |-> None]
    ELSE [sd |-> sd, ret |-> None]

\* OptionState.update: the new state_data and the value returned or exception
\* raised.  The two appends are made in place before update_state() runs, so
\* they stay when calculate_state_variable() raises.
update(sd, time, underlying) ==
    IF update_accepts(sd, time)
    THEN LET appended == StateData(Append(sd.updates, time),
                                   Append(sd.underlying, underlying),
                                   sd.state)
             s == update_state(appended)
         IN IF IsError(s)
            THEN [sd |-> appended, ret |-> s]
            ELSE [sd |-> StateData(appended.updates, appended.underlying, s),
                  ret |-> None]
    ELSE [sd |-> sd, ret |-> None]

(* ------------------------------ Process -------------------------------- *)
ProcessKinds == {"Process", "BlackScholesProcess"}
\* the starting values a process is constructed with
Spots == {S_0, S_0 + 1}
\* the standard normal draws np.random.normal() gives, in whole units
Draws == {-1, 0, 1}

\* Process.StateData(spot, time)
ProcessStateData(spot_, time) == [spot |-> spot_, time |-> time]

\* BlackScholesProcess.evolve:
\*   spot * np.exp((rate - 0.5 * vol**2) * dt + vol * np.sqrt(dt) * norms)
\* with rate = 0.02 and vol = 0.2, for which rate - 0.5 * vol**2 = 0.  Prices
\* are integers here: the move vol * sqrt(dt) * norms of the logarithm is a
\* move of norms * dt price units.  np.sqrt of a negative dt is nan, and so is
\* every product with nan.
evolve(spot_, dt, norms) ==
    IF spot_ = nan \/ dt < 0 THEN nan
    ELSE spot_ + norms * dt

\* the first BlackScholesProcess.update of the lecture notebook: it evolves
\* from the starting value over the absolute time and does not store the time
Process_update_from_start(ps, time, norms) ==
    IF process_kind = "Process"
    THEN [state |-> ps, ret |-> Raise("NotImplementedError")]
    ELSE LET st == evolve(process_spot, time, norms)
         IN [state |-> ProcessStateData(st, ps.time), ret |-> Float(st)]

\* Process.update that records the new time before evolve() is called
Process_update_time_first(ps, time, norms) ==
    IF process_kind = "Process"
    THEN [state |-> ProcessStateData(ps.spot, time), ret |-> Raise("NotImplementedError")]
    ELSE LET dt == time - ps.time
             st == evolve(ps.spot, dt, norms)
         IN [state |-> ProcessStateData(st, time), ret |-> Float(st)]

\* Process.update: the new state and the value returned or exception raised.
\* Process.evolve raises NotImplementedError, before the state is assigned.
Process_update(ps, time, norms) ==
    IF process_kind = "Process"
    THEN [state |-> ps, ret |-> Raise("NotImplementedError")]
    ELSE LET dt == time - ps.time
             st == evolve(ps.spot, dt, norms)
         IN [state |-> ProcessStateData(st, time), ret |-> Float(st)]

\* Process.reset that keeps the time reached
Process_reset_spot_only(ps) == ProcessStateData(process_spot, ps.time)

\* Process.reset: the new state
Process_reset(ps) == ProcessStateData(process_spot, 0)

(* ------------------------------ actions -------------------------------- *)
\* OptionState.__init__ / BarrierState.__init__ with the default state_data
InitOption ==
    /\ kind \in Kinds
    /\ expiry \in Times
    /\ times \in TimeLists
    /\ barrier \in (IF kind \in BarrierKinds THEN Barriers ELSE {0})
    /\ state_data = StateData(<<>>, <<>>, None)
    /\ last = Call_("__init__", 0, 0, None)

\* rand_process = BlackScholesProcess(S_0, r, vol), not used yet
ProcessIdle ==
    /\ process_kind = "BlackScholesProcess"
    /\ process_spot = S_0
    /\ process_state = ProcessStateData(S_0, 0)
    /\ process_last = Call_("__init__", 0, 0, None)

\* mc_path_dependent has not been called
DriverIdle ==
    /\ pc = "idle"
    /\ n_paths = 0
    /\ path_index = 0
    /\ time_index = 0
    /\ std_norm = 0
    /\ St = 0
    /\ running_sum = None
    /\ path_values = <<>>
    /\ result = [ret |-> None, df |-> <<>>]
    /\ trace = <<>>
    /\ n_draws = 0

\* the locals of a call of mc_path_dependent: where it stands, the paths
\* started, the times consumed, St, running_sum, the draws of the current path,
\* the draws and the path_value of every finished path, and what it returned
\* or raised: [ret, df]
LoopLocals(pc_) ==
    [pc |-> pc_, path_index |-> 0, time_index |-> 0, St |-> 0,
     running_sum |-> Num(0, 1), zs |-> <<>>, done |-> <<>>,
     result |-> [ret |-> None, df |-> <<>>]]

\* an option state and a process as constructed
FreshPair ==
    [state_data |-> StateData(<<>>, <<>>, None),
     process_state |-> ProcessStateData(S_0, 0)]

\* no second call of mc_path_dependent is running
LoopsIdle ==
    /\ shared = FALSE
    /\ objs = [i \in 1..2 |-> FreshPair]
    /\ loops = [l \in 1..2 |-> LoopLocals("idle")]

\* no caller holds a reference to the record or to the process state, and
\* no other object is in use
NoneHeld ==
    /\ held = NoReference
    /\ process_held = NoReference
    /\ lecture = [sd |-> StateData(<<>>, <<>>, None), ret |-> None]
    /\ LoopsIdle

Init == InitOption /\ ProcessIdle /\ DriverIdle /\ NoneHeld

\* x.reset()
Reset ==
    /\ state_data' = StateData(<<>>, <<>>, None)
    /\ last' = Call_("reset", 0, 0, None)
    /\ held' = after_rebinding(held, state_data')
    /\ UNCHANGED <<kind, expiry, times, barrier, process_vars, driver_vars, scenario_vars, process_held>>

\* x.update(time, underlying)
Update ==
    \E time \in Times, underlying \in Values :
        LET r == update(state_data, time, underlying)
        IN /\ state_data' = r.sd
           /\ last' = Call_("update", time, underlying, r.ret)
           /\ held' = after_mutation(held, r.sd)
           /\ UNCHANGED <<kind, expiry, times, barrier, process_vars, driver_vars, scenario_vars, process_held>>

\* x.has_expired()
HasExpired ==
    /\ last' = Call_("has_expired", 0, 0, Bool(has_expired(state_data)))
    /\ UNCHANGED <<kind, expiry, times, barrier, state_data, process_vars, driver_vars, scenario_vars, ref_vars>>

\* x.is_payoff_active()
IsPayoffActive ==
    /\ last' = Call_("is_payoff_active", 0, 0, is_payoff_active(state_data))
    /\ UNCHANGED <<kind, expiry, times, barrier, state_data, process_vars, driver_vars, scenario_vars, ref_vars>>

\* x.calculate_payoff() that empties the record once it has paid
CalculatePayoff_consuming ==
    /\ last' = Call_("calculate_payoff", 0, 0, calculate_payoff(state_data))
    /\ state_data' = IF IsError(calculate_payoff(state_data)) THEN state_data
                     ELSE StateData(<<>>, <<>>, None)
    /\ UNCHANGED <<kind, expiry, times, barrier, process_vars, driver_vars, scenario_vars, ref_vars>>

\* x.calculate_payoff()
CalculatePayoff ==
    /\ last' = Call_("calculate_payoff", 0, 0, calculate_payoff(state_data))
    /\ UNCHANGED <<kind, expiry, times, barrier, state_data, process_vars, driver_vars, scenario_vars, ref_vars>>

Next ==
    \/ Reset
    \/ Update
    \/ HasExpired
    \/ IsPayoffActive
    \/ CalculatePayoff

Spec == Init /\ [][Next]_vars

(* ----------------------- references to the record ---------------------- *)
\* rec = x.state_data: the caller keeps a reference to the current record
HoldRecord ==
    /\ held' = reference_to(state_data)
    /\ last' = Call_("state_data", 0, 0, None)
    /\ UNCHANGED <<kind, expiry, times, barrier, state_data, process_vars,
                   driver_vars, scenario_vars, process_held>>

\* the option states whose record a caller looks at
InitRecord ==
    /\ kind \in {"AsianState", "OptionState"}
    /\ expiry \in {1, 2}
    /\ times \in {<<1>>, <<1, 2>>}
    /\ barrier = 0
    /\ state_data = StateData(<<>>, <<>>, None)
    /\ last = Call_("__init__", 0, 0, None)

InitR == InitRecord /\ ProcessIdle /\ DriverIdle /\ NoneHeld

NextR ==
    \/ Reset
    \/ Update
    \/ HoldRecord

SpecRecord == InitR /\ [][NextR]_vars

(* ---------------- the lecture notebook's OptionState ------------------- *)
\* OptionState.has_expired of the lecture notebook
lecture_has_expired(sd) ==
    IF Len(sd.updates) > 0
    THEN expiry <= max(sd.updates)
    ELSE FALSE

\* calculate_state_variable of the lecture notebook's classes
lecture_calculate_state_variable(sd) ==
    CASE kind = "AsianState" -> mean(sd.underlying)
      [] kind = "MaxState" -> Float(max(sd.underlying))
      [] OTHER -> Raise("NotImplementedError")

\* OptionState.update_state of the lecture notebook
lecture_update_state(sd) ==
    IF lecture_has_expired(sd)
    THEN lecture_calculate_state_variable(sd)
    ELSE None

\* OptionState.update of the lecture notebook
lecture_update(sd, time, underlying) ==
    IF In(time, times) /\ ~In(time, sd.updates)
    THEN LET appended == StateData(Append(sd.updates, time),
                                   Append(sd.underlying, underlying),
                                   sd.state)
             s == lecture_update_state(appended)
         IN IF IsError(s)
            THEN [sd |-> appended, ret |-> s]
            ELSE [sd |-> StateData(appended.updates, appended.underlying, s),
                  ret |-> None]
    ELSE [sd |-> sd, ret |-> None]

\* OptionState.calculate_payoff of the lecture notebook: no is_payoff_active
lecture_calculate_payoff(sd) ==
    IF lecture_has_expired(sd)
    THEN Call(sd.state)
    ELSE Raise("RuntimeError")

\* the same class constructed from both notebooks with the same arguments
InitBoth ==
    /\ kind \in PlainKinds
    /\ expiry \in Times
    /\ times \in TimeLists
    /\ barrier = 0
    /\ state_data = StateData(<<>>, <<>>, None)
    /\ last = Call_("__init__", 0, 0, None)

\* reset() on both objects
BothReset ==
    /\ state_data' = StateData(<<>>, <<>>, None)
    /\ last' = Call_("reset", 0, 0, None)
    /\ held' = after_rebinding(held, state_data')
    /\ lecture' = [sd |-> StateData(<<>>, <<>>, None), ret |-> None]
    /\ UNCHANGED <<kind, expiry, times, barrier, process_vars, driver_vars, process_held, loop_vars>>

\* update(time, underlying) on both objects
BothUpdate ==
    \E time \in Times, underlying \in Values :
        LET r == update(state_data, time, underlying)
            l == lecture_update(lecture.sd, time, underlying)
        IN /\ state_data' = r.sd
           /\ last' = Call_("update", time, underlying, r.ret)
           /\ held' = after_mutation(held, r.sd)
           /\ lecture' = [sd |-> l.sd, ret |-> l.ret]
           /\ UNCHANGED <<kind, expiry, times, barrier, process_vars, driver_vars, process_held, loop_vars>>

\* calculate_payoff() on both objects
BothCalculatePayoff ==
    /\ last' = Call_("calculate_payoff", 0, 0, calculate_payoff(state_data))
    /\ lecture' = [lecture EXCEPT !.ret = lecture_calculate_payoff(lecture.sd)]
    /\ UNCHANGED <<kind, expiry, times, barrier, state_data, process_vars, driver_vars, ref_vars, loop_vars>>

InitB == InitBoth /\ ProcessIdle /\ DriverIdle /\ NoneHeld

NextB ==
    \/ BothReset
    \/ BothUpdate
    \/ BothCalculatePayoff

SpecBoth == InitB /\ [][NextB]_vars

(* ------------------------- calls on a process -------------------------- *)
\* AsianState(S_0, 1, call_payoff, [1]), not used
OptionIdle ==
    /\ kind = "AsianState"
    /\ expiry = 1
    /\ times = <<1>>
    /\ barrier = 0
    /\ state_data = StateData(<<>>, <<>>, None)
    /\ last = Call_("__init__", 0, 0, None)

\* Process(Process.StateData(spot, time)) or BlackScholesProcess(spot, r, vol),
\* which passes Process.StateData(spot, 0)
InitProcess ==
    /\ process_kind \in ProcessKinds
    /\ process_spot \in Spots
    /\ \E t0 \in (IF process_kind = "Process" THEN {0, 1} ELSE {0}) :
           process_state = ProcessStateData(process_spot, t0)
    /\ process_last = Call_("__init__", 0, 0, None)

\* p.reset()
ProcessReset ==
    /\ process_state' = Process_reset(process_state)
    /\ process_last' = Call_("reset", 0, 0, None)
    /\ process_held' = after_rebinding(process_held, process_state')
    /\ UNCHANGED <<process_kind, process_spot, option_vars, driver_vars, scenario_vars, held>>

\* p.update(time, norms)
ProcessUpdate ==
    \E time \in 0..MaxTime, norms \in Draws :
        LET r == Process_update(process_state, time, norms)
        IN /\ process_state' = r.state
           /\ process_last' = Call_("update", time, norms, r.ret)
           /\ process_held' = IF IsError(r.ret) THEN process_held
                              ELSE after_rebinding(process_held, r.state)
           /\ UNCHANGED <<process_kind, process_spot, option_vars, driver_vars, scenario_vars, held>>

\* snap = p.state: the caller keeps a reference to the current snapshot
HoldSnapshot ==
    /\ process_held' = reference_to(process_state)
    /\ process_last' = Call_("state", 0, 0, None)
    /\ UNCHANGED <<option_vars, process_kind, process_spot, process_state,
                   driver_vars, scenario_vars, held>>

InitP == OptionIdle /\ InitProcess /\ DriverIdle /\ NoneHeld

NextP ==
    \/ ProcessReset
    \/ ProcessUpdate
    \/ HoldSnapshot

SpecProcess == InitP /\ [][NextP]_vars

(* -------------------------- mc_path_dependent -------------------------- *)
\* the underlying value a Python number stands for (the inverse of Float)
number(v) == IF v = NaN THEN nan ELSE v.num

\* an assignment in place of the sum: a = b
Add_overwrite(a, b) == b

\* a + b on numbers
Add(a, b) ==
    IF a = NaN \/ b = NaN THEN NaN
    ELSE Num(a.num * b.den + b.num * a.den, a.den * b.den)

\* a / n for an integer n; division by zero raises
Div(a, n) ==
    IF n = 0 THEN Raise("ZeroDivisionError")
    ELSE IF a = NaN THEN NaN
    ELSE IF n > 0 THEN Num(a.num, a.den * n)
    ELSE Num(-a.num, a.den * (-n))

\* FixedRateYieldCurve.discount: np.exp(-self.rate * maturity).  The factor is
\* kept as the list of the maturities it was computed for: a value times
\* discount(m) is the value with df = <<m>>.
discount(maturity) == <<maturity>>

\* one call made by mc_path_dependent: the method, its time argument, its other
\* argument (norms or underlying) and the number it returned
Event(ev, t, x, y) == [ev |-> ev, t |-> t, x |-> x, y |-> y]

\* the lists of required times an option is priced with: ascending, descending
\* and with a repeated time
DriverTimeLists == {<<1>>, <<2>>, <<1, 2>>, <<2, 1>>, <<1, 1>>}

\* the state on entry of mc_path_dependent(option_state, process, yield_curve,
\* n_paths), after times = option_state.times and running_sum = 0, for a
\* freshly constructed option state and process
InitD ==
    /\ kind \in Kinds
    /\ expiry \in Times
    /\ times \in DriverTimeLists
    /\ barrier \in (IF kind \in BarrierKinds THEN Barriers ELSE {0})
    /\ state_data = StateData(<<>>, <<>>, None)
    /\ last = Call_("__init__", 0, 0, None)
    /\ process_kind \in ProcessKinds
    /\ process_spot = S_0
    /\ process_state = ProcessStateData(S_0, 0)
    /\ process_last = Call_("__init__", 0, 0, None)
    /\ pc = "for_i"
    /\ n_paths \in -1..MaxPaths
    /\ path_index = 0
    /\ time_index = 0
    /\ std_norm = 0
    /\ St = 0
    /\ running_sum = Num(0, 1)
    /\ path_values = <<>>
    /\ result = [ret |-> None, df |-> <<>>]
    /\ trace = <<>>
    /\ n_draws = 0
    /\ NoneHeld

\* a loop over the required times that stops after the first one
times_exhausted_after_one(ts, idx) == idx >= 1

\* for t in times: the loop has presented every element of the list
times_exhausted(ts, idx) == idx = Len(ts)

\* an exception that is caught inside the loop: the next path is started
Raised_swallowed(exc) ==
    /\ pc' = "for_i"
    /\ result' = result

\* an exception leaves mc_path_dependent
Raised(exc) ==
    /\ pc' = "raised"
    /\ result' = [ret |-> exc, df |-> <<>>]

\* for i in range(n_paths): process.reset()
StartPath ==
    /\ pc = "for_i"
    /\ path_index < n_paths
    /\ path_index' = path_index + 1
    /\ process_state' = Process_reset(process_state)
    /\ trace' = <<Event("process.reset", 0, 0, 0)>>
    /\ pc' = "option_reset"
    /\ process_held' = after_rebinding(process_held, process_state')
    /\ UNCHANGED <<option_vars, process_kind, process_spot, process_last, n_paths, scenario_vars,
                   time_index, std_norm, St, running_sum, path_values, result,
                   n_draws, held>>

\* option_state.reset(); do_one_path(times) is entered
ResetOption ==
    /\ pc = "option_reset"
    /\ state_data' = StateData(<<>>, <<>>, None)
    /\ trace' = Append(trace, Event("option_state.reset", 0, 0, 0))
    /\ time_index' = 0
    /\ pc' = "for_t"
    /\ held' = after_rebinding(held, state_data')
    /\ UNCHANGED <<kind, expiry, times, barrier, last, process_vars, n_paths, scenario_vars,
                   path_index, std_norm, St, running_sum, path_values, result,
                   n_draws, process_held>>

\* for t in times: std_norm = np.random.normal()
Draw ==
    /\ pc = "for_t"
    /\ ~times_exhausted(times, time_index)
    /\ \E z \in Draws :
           /\ std_norm' = z
           /\ trace' = Append(trace, Event("np.random.normal", 0, 0, z))
    /\ pc' = "process_update"
    /\ n_draws' = n_draws + 1
    /\ UNCHANGED <<option_vars, process_vars, n_paths, scenario_vars, path_index, time_index, St,
                   running_sum, path_values, result, ref_vars>>

\* St = process.update(t, std_norm)
UpdateProcess ==
    /\ pc = "process_update"
    /\ LET t == times[time_index + 1]
           r == Process_update(process_state, t, std_norm)
       IN /\ process_state' = r.state
          /\ process_held' = IF IsError(r.ret) THEN process_held
                             ELSE after_rebinding(process_held, r.state)
          /\ IF IsError(r.ret)
             THEN /\ Raised(r.ret)
                  /\ UNCHANGED <<St, trace>>
             ELSE /\ St' = number(r.ret)
                  /\ trace' = Append(trace, Event("process.update", t, std_norm, number(r.ret)))
                  /\ pc' = "option_update"
                  /\ UNCHANGED result
    /\ UNCHANGED <<option_vars, process_kind, process_spot, process_last, n_paths, scenario_vars,
                   path_index, time_index, std_norm, running_sum, path_values,
                   n_draws, held>>

\* option_state.update(t, St)
UpdateOption ==
    /\ pc = "option_update"
    /\ LET t == times[time_index + 1]
           r == update(state_data, t, St)
       IN /\ state_data' = r.sd
          /\ held' = after_mutation(held, r.sd)
          /\ IF IsError(r.ret)
             THEN /\ Raised(r.ret)
                  /\ UNCHANGED <<time_index, trace>>
             ELSE /\ time_index' = time_index + 1
                  /\ trace' = Append(trace, Event("option_state.update", t, St, 0))
                  /\ pc' = "for_t"
                  /\ UNCHANGED result
    /\ UNCHANGED <<kind, expiry, times, barrier, last, process_vars, n_paths, scenario_vars,
                   path_index, std_norm, St, running_sum, path_values, n_draws,
                   process_held>>

\* return option_state.calculate_payoff(); running_sum += path_value
PathValue ==
    /\ pc = "for_t"
    /\ times_exhausted(times, time_index)
    /\ LET path_value == calculate_payoff(state_data)
       IN IF IsError(path_value)
          THEN /\ Raised(path_value)
               /\ UNCHANGED <<running_sum, path_values, trace>>
          ELSE /\ running_sum' = Add(running_sum, path_value)
               /\ path_values' = Append(path_values, path_value)
               /\ trace' = Append(trace, Event("option_state.calculate_payoff", 0, 0, 0))
               /\ pc' = "for_i"
               /\ UNCHANGED result
    /\ UNCHANGED <<option_vars, process_vars, n_paths, scenario_vars, path_index, time_index,
                   std_norm, St, n_draws, ref_vars>>

\* return running_sum / n_paths * yield_curve.discount(option_state.expiry)
Return ==
    /\ pc = "for_i"
    /\ path_index >= n_paths
    /\ LET average == Div(running_sum, n_paths)
       IN IF IsError(average)
          THEN Raised(average)
          ELSE /\ pc' = "returned"
               /\ result' = [ret |-> average, df |-> discount(expiry)]
    /\ UNCHANGED <<option_vars, process_vars, n_paths, scenario_vars, path_index, time_index,
                   std_norm, St, running_sum, path_values, trace, n_draws, ref_vars>>

NextD ==
    \/ StartPath
    \/ ResetOption
    \/ Draw
    \/ UpdateProcess
    \/ UpdateOption
    \/ PathValue
    \/ Return

SpecDriver == InitD /\ [][NextD]_vars

\* the call runs on: Python executes the next statement of a running function
FairSpecDriver == SpecDriver /\ WF_vars(NextD)

(* ------------- two interleaved calls of mc_path_dependent -------------- *)
\* the pair of objects a call works on when every call was given the first pair
instance_of_shared(l) == 1

\* the pair of objects the l-th call works on: `option_state` and `process`
\* are the arguments it was called with
instance_of(l) == IF shared THEN 1 ELSE l

\* two calls mc_path_dependent(option_state, process, yield_curve, n_paths)
\* have been entered, on the same pair of objects or each on its own, each
\* to price one path
InitLoops ==
    /\ kind \in {"AsianState", "UpAndOut"}
    /\ expiry \in {1, 2}
    /\ times \in {<<1>>, <<1, 2>>}
    /\ barrier \in (IF kind \in BarrierKinds THEN Barriers ELSE {0})
    /\ state_data = StateData(<<>>, <<>>, None)
    /\ last = Call_("__init__", 0, 0, None)
    /\ ProcessIdle
    /\ pc = "idle"
    /\ n_paths = 1
    /\ path_index = 0
    /\ time_index = 0
    /\ std_norm = 0
    /\ St = 0
    /\ running_sum = None
    /\ path_values = <<>>
    /\ result = [ret |-> None, df |-> <<>>]
    /\ trace = <<>>
    /\ n_draws = 0
    /\ held = NoReference
    /\ process_held = NoReference
    /\ lecture = [sd |-> StateData(<<>>, <<>>, None), ret |-> None]
    /\ shared \in BOOLEAN
    /\ objs = [i \in 1..2 |-> FreshPair]
    /\ loops = [l \in 1..2 |-> LoopLocals("for_i")]

\* the l-th call raises exc
LoopRaised(l, exc) ==
    /\ loops' = [loops EXCEPT ![l].pc = "raised",
                              ![l].result = [ret |-> exc, df |-> <<>>]]

\* for i in range(n_paths): process.reset()
LoopStartPath(l) ==
    /\ loops[l].pc = "for_i"
    /\ loops[l].path_index < n_paths
    /\ objs' = [objs EXCEPT ![instance_of(l)].process_state =
                                Process_reset(objs[instance_of(l)].process_state)]
    /\ loops' = [loops EXCEPT ![l].pc = "option_reset",
                              ![l].path_index = loops[l].path_index + 1]
    /\ UNCHANGED <<option_vars, process_vars, driver_vars, ref_vars, lecture, shared>>

\* option_state.reset()
LoopResetOption(l) ==
    /\ loops[l].pc = "option_reset"
    /\ objs' = [objs EXCEPT ![instance_of(l)].state_data = StateData(<<>>, <<>>, None)]
    /\ loops' = [loops EXCEPT ![l].pc = "for_t", ![l].time_index = 0, ![l].zs = <<>>]
    /\ UNCHANGED <<option_vars, process_vars, driver_vars, ref_vars, lecture, shared>>

\* for t in times: std_norm = np.random.normal(); St = process.update(t, std_norm)
LoopUpdateProcess(l) ==
    /\ loops[l].pc = "for_t"
    /\ ~times_exhausted(times, loops[l].time_index)
    /\ \E z \in Draws :
           LET t == times[loops[l].time_index + 1]
               r == Process_update(objs[instance_of(l)].process_state, t, z)
           IN IF IsError(r.ret)
              THEN /\ LoopRaised(l, r.ret)
                   /\ UNCHANGED objs
              ELSE /\ objs' = [objs EXCEPT ![instance_of(l)].process_state = r.state]
                   /\ loops' = [loops EXCEPT ![l].pc = "option_update",
                                             ![l].St = number(r.ret),
                                             ![l].zs = Append(loops[l].zs, z)]
    /\ UNCHANGED <<option_vars, process_vars, driver_vars, ref_vars, lecture, shared>>

\* option_state.update(t, St)
LoopUpdateOption(l) ==
    /\ loops[l].pc = "option_update"
    /\ LET t == times[loops[l].time_index + 1]
           r == update(objs[instance_of(l)].state_data, t, loops[l].St)
       IN IF IsError(r.ret)
          THEN /\ LoopRaised(l, r.ret)
               /\ objs' = [objs EXCEPT ![instance_of(l)].state_data = r.sd]
          ELSE /\ objs' = [objs EXCEPT ![instance_of(l)].state_data = r.sd]
               /\ loops' = [loops EXCEPT ![l].pc = "for_t",
                                         ![l].time_index = loops[l].time_index + 1]
    /\ UNCHANGED <<option_vars, process_vars, driver_vars, ref_vars, lecture, shared>>

\* return option_state.calculate_payoff(); running_sum += path_value
LoopPathValue(l) ==
    /\ loops[l].pc = "for_t"
    /\ times_exhausted(times, loops[l].time_index)
    /\ LET path_value == calculate_payoff(objs[instance_of(l)].state_data)
       IN IF IsError(path_value)
          THEN LoopRaised(l, path_value)
          ELSE loops' = [loops EXCEPT
                   ![l].pc = "for_i",
                   ![l].running_sum = Add(loops[l].running_sum, path_value),
                   ![l].done = Append(loops[l].done,
                                      [zs |-> loops[l].zs, path_value |-> path_value])]
    /\ UNCHANGED objs
    /\ UNCHANGED <<option_vars, process_vars, driver_vars, ref_vars, lecture, shared>>

\* return running_sum / n_paths * yield_curve.discount(option_state.expiry)
LoopReturn(l) ==
    /\ loops[l].pc = "for_i"
    /\ loops[l].path_index >= n_paths
    /\ LET average == Div(loops[l].running_sum, n_paths)
       IN IF IsError(average)
          THEN LoopRaised(l, average)
          ELSE loops' = [loops EXCEPT ![l].pc = "returned",
                   ![l].result = [ret |-> average, df |-> discount(expiry)]]
    /\ UNCHANGED objs
    /\ UNCHANGED <<option_vars, process_vars, driver_vars, ref_vars, lecture, shared>>

\* one statement of one of the two calls
NextL ==
    \E l \in 1..2 :
        \/ LoopStartPath(l)
        \/ LoopResetOption(l)
        \/ LoopUpdateProcess(l)
        \/ LoopUpdateOption(l)
        \/ LoopPathValue(l)
        \/ LoopReturn(l)

SpecLoops == InitLoops /\ [][NextL]_vars

(* ------------- mc_path_dependent on objects used before --------------- *)
\* a process and an option state that were used before the call: the process
\* has been updated to time 2, the option state has recorded time 1; the
\* caller keeps references to the states they were in
InitPrior ==
    /\ kind \in {"AsianState", "UpAndOut"}
    /\ expiry \in {1, 2}
    /\ times \in {<<1>>, <<1, 2>>}
    /\ barrier \in (IF kind \in BarrierKinds THEN Barriers ELSE {0})
    /\ state_data \in {StateData(<<>>, <<>>, None),
                       update(StateData(<<>>, <<>>, None), 1, K + 3).sd}
    /\ last = Call_("__init__", 0, 0, None)
    /\ process_kind = "BlackScholesProcess"
    /\ process_spot = S_0
    /\ process_state \in {ProcessStateData(S_0, 0),
                          Process_update(ProcessStateData(S_0, 0), 2, 1).state}
    /\ process_last = Call_("__init__", 0, 0, None)
    /\ pc = "for_i"
    /\ n_paths \in 1..MaxPaths
    /\ path_index = 0
    /\ time_index = 0
    /\ std_norm = 0
    /\ St = 0
    /\ running_sum = Num(0, 1)
    /\ path_values = <<>>
    /\ result = [ret |-> None, df |-> <<>>]
    /\ trace = <<>>
    /\ n_draws = 0
    /\ held = reference_to(state_data)
    /\ process_held = reference_to(process_state)
    /\ lecture = [sd |-> StateData(<<>>, <<>>, None), ret |-> None]
    /\ LoopsIdle

SpecDriverPrior == InitPrior /\ [][NextD]_vars

(* ------------------------- derived notions ----------------------------- *)
\* some recorded time is at or after the expiry
SomeUpdateAtOrAfterExpiry(sd) == \E i \in 1..Len(sd.updates) : sd.updates[i] >= expiry
\* every required fixing time has been recorded
AllRequiredObserved(sd) == \A i \in 1..Len(times) : In(times[i], sd.updates)
\* no required time earlier than a recorded one was skipped
NoFixingSkipped(sd) ==
    \A i \in 1..Len(times) :
        (\E j \in 1..Len(sd.updates) : times[i] < sd.updates[j]) => In(times[i], sd.updates)
ConcreteKinds == Kinds \ {"OptionState", "BarrierState"}
rec_updates == state_data.updates
rec_underlying == state_data.underlying

(* ------------------------------ claims --------------------------------- *)

\* C1: has_expired() is true iff the record's observed times are non-empty and
\* one of them (hence their maximum) is >= expiry, in every reachable state,
\* both as the method evaluates in the state and as its last call returned.
C1_HasExpiredIffMaxAtLeastExpiry ==
    /\ has_expired(state_data) <=> SomeUpdateAtOrAfterExpiry(state_data)
    /\ last.op = "has_expired" =>
           (last.ret = True <=> (rec_updates # <<>> /\ SomeUpdateAtOrAfterExpiry(state_data)))
    /\ last.op = "has_expired" => last.ret \in {True, False}

\* C1 witness: has_expired() returned True on a record whose only observations
\* at or after the expiry lie strictly after it.
C1_Witness ==
    /\ last.op = "has_expired"
    /\ last.ret = True
    /\ \E i \in 1..Len(rec_updates) : rec_updates[i] > expiry
    /\ \A i \in 1..Len(rec_updates) : rec_updates[i] # expiry

\* C2: calculate_payoff() called in a state where the option has not expired
\* raises RuntimeError and leaves the record unchanged.
C2_PayoffBeforeExpiryRaises ==
    [][(last'.op = "calculate_payoff" /\ ~SomeUpdateAtOrAfterExpiry(state_data))
          => (last'.ret = Raise("RuntimeError") /\ state_data' = state_data)]_vars

\* C2 witness: calculate_payoff() raised RuntimeError after a non-final fixing
\* had been recorded.
C2_Witness ==
    /\ last.op = "calculate_payoff"
    /\ last.ret = Raise("RuntimeError")
    /\ Len(rec_updates) > 0

\* C3: update(t, v) with a time t that is already recorded leaves the whole
\* record (times, values, state variable) as it was.
C3_DuplicateUpdateIsNoOp ==
    [][(last'.op = "update" /\ In(last'.time, rec_updates)) => state_data' = state_data]_vars

\* C3 witness: the last call was update(t, v) for a recorded time t whose
\* recorded value differs from v.
C3_Witness ==
    /\ last.op = "update"
    /\ \E i \in 1..Len(rec_updates) : rec_updates[i] = last.time /\ rec_underlying[i] # last.value

\* C4: update(time, value) with a time that is not a required fixing time
\* changes neither the record nor the value of has_expired().
C4_NonRequiredUpdateIsNoOp ==
    [][(last'.op = "update" /\ ~In(last'.time, times))
          => /\ state_data' = state_data
             /\ has_expired(state_data') = has_expired(state_data)]_vars

\* C4 witness: the last call was update() with a non-required time on a
\* record that already holds a fixing.
C4_Witness ==
    /\ last.op = "update"
    /\ ~In(last.time, times)
    /\ Len(rec_updates) > 0

\* C5: on an expired option calculate_payoff() returns payoff(state variable)
\* when is_payoff_active() is true and 0 when it is false; AsianState and
\* MaxState, which keep the default hook, always return payoff(state variable).
C5_PayoffWhenExpired ==
    (last.op = "calculate_payoff" /\ SomeUpdateAtOrAfterExpiry(state_data)) =>
        /\ is_payoff_active(state_data) = True => last.ret = Call(state_data.state)
        /\ is_payoff_active(state_data) = False => last.ret = Num(0, 1)
        /\ kind \in {"AsianState", "MaxState"} =>
               (last.ret = Call(state_data.state) /\ IsNum(last.ret))

\* C5 witness: calculate_payoff() returned 0 on an expired, inactive barrier
\* option whose payoff function is positive at the state variable.
C5_Witness ==
    /\ last.op = "calculate_payoff"
    /\ SomeUpdateAtOrAfterExpiry(state_data)
    /\ is_payoff_active(state_data) = False
    /\ last.ret = Num(0, 1)
    /\ Call(state_data.state) # Num(0, 1)

\* C6 (as stated): the state variable is set iff all required fixing times
\* have been observed, for any required times and expiry (concrete classes).
C6_Original ==
    kind \in ConcreteKinds =>
        (state_data.state # None <=> AllRequiredObserved(state_data))

\* C6 (amended): for a concrete option state the state variable is set iff
\* some recorded time is >= expiry; it is set iff all required times have been
\* observed when the expiry is the largest required time and no required time
\* before a recorded one was skipped.
C6_StateSetIffExpired ==
    kind \in ConcreteKinds =>
        /\ state_data.state # None <=> SomeUpdateAtOrAfterExpiry(state_data)
        /\ state_data.state # None => IsNum(state_data.state)
        /\ (expiry = max(times) /\ NoFixingSkipped(state_data)) =>
               (state_data.state # None <=> AllRequiredObserved(state_data))

\* C6 witness: an accepted update set the state variable although a required
\* fixing time is still unobserved.
C6_Witness ==
    /\ kind \in ConcreteKinds
    /\ last.op = "update"
    /\ IsNum(state_data.state)
    /\ ~AllRequiredObserved(state_data)

\* C7: once has_expired() is true it stays true across every call but
\* reset(); only reset() makes it false again.  (A call that leaves the
\* record as it is keeps has_expired() as it is; the first disjunct settles
\* those calls without evaluating has_expired.)
C7_ExpiryMonotone ==
    [][\/ state_data' = state_data
       \/ has_expired(state_data) => (has_expired(state_data') \/ last'.op = "reset")]_vars

\* C7 witness: an update was accepted after the option had already expired
\* and its time is earlier than the expiry.
C7_Witness ==
    /\ last.op = "update"
    /\ Len(rec_updates) > 1
    /\ rec_updates[Len(rec_updates)] = last.time
    /\ last.time < expiry
    /\ has_expired(state_data)

\* C8: on a non-empty record UpAndOut is active iff every value is < barrier,
\* DownAndOut iff every value is > barrier, UpAndIn iff some value is
\* > barrier, DownAndIn iff some value is < barrier.
C8_BarrierActivation ==
    LET n == Len(rec_underlying)
        expected ==
            CASE kind = "UpAndOut" -> \A i \in 1..n : rec_underlying[i] < barrier
              [] kind = "DownAndOut" -> \A i \in 1..n : rec_underlying[i] > barrier
              [] kind = "UpAndIn" -> \E i \in 1..n : rec_underlying[i] > barrier
              [] kind = "DownAndIn" -> \E i \in 1..n : rec_underlying[i] < barrier
              [] OTHER -> TRUE
    IN (kind \in {"UpAndOut", "DownAndOut", "UpAndIn", "DownAndIn"} /\ n > 0) =>
           /\ is_payoff_active(state_data) = Bool(expected)
           /\ last.op = "is_payoff_active" => last.ret = Bool(expected)

\* C8 witness: is_payoff_active() returned False for a DownAndIn whose values
\* touch the barrier without going below it.
C8_Witness ==
    /\ kind = "DownAndIn"
    /\ last.op = "is_payoff_active"
    /\ last.ret = False
    /\ \E i \in 1..Len(rec_underlying) : rec_underlying[i] = barrier

\* the largest recorded value equals the barrier exactly
MaxTouchesBarrier ==
    /\ \E i \in 1..Len(rec_underlying) : rec_underlying[i] = barrier
    /\ \A i \in 1..Len(rec_underlying) : rec_underlying[i] <= barrier

\* C9 (as stated): an UpAndOut record whose maximum equals the barrier is
\* active.
C9_Original ==
    (kind = "UpAndOut" /\ MaxTouchesBarrier) => is_payoff_active(state_data) = True

\* C9 (amended): an UpAndOut record whose maximum equals the barrier is not
\* active, and its payoff at expiry is 0: touching the barrier knocks out.
C9_TouchingKnocksOut ==
    (kind = "UpAndOut" /\ MaxTouchesBarrier) =>
        /\ is_payoff_active(state_data) = False
        /\ last.op = "is_payoff_active" => last.ret = False
        /\ (last.op = "calculate_payoff" /\ SomeUpdateAtOrAfterExpiry(state_data)) =>
               last.ret = Num(0, 1)

\* C9 witness: is_payoff_active() returned False on an UpAndOut whose maximum
\* is the barrier.
C9_Witness ==
    /\ kind = "UpAndOut"
    /\ MaxTouchesBarrier
    /\ last.op = "is_payoff_active"
    /\ last.ret = False

\* C10: for UpAndOut, once some recorded value exceeds the barrier, the
\* expired option is inactive and calculate_payoff() returns 0 whatever the
\* last value is.
C10_UpAndOutKnockedOutPaysZero ==
    (/\ kind = "UpAndOut"
     /\ \E i \in 1..Len(rec_underlying) : rec_underlying[i] > barrier
     /\ SomeUpdateAtOrAfterExpiry(state_data)) =>
        /\ is_payoff_active(state_data) = False
        /\ calculate_payoff(state_data) = Num(0, 1)
        /\ last.op = "is_payoff_active" => last.ret = False
        /\ last.op = "calculate_payoff" => last.ret = Num(0, 1)

\* C10 witness: calculate_payoff() returned 0 on an expired UpAndOut that went
\* above the barrier and came back to a last value below it and in the money.
C10_Witness ==
    /\ kind = "UpAndOut"
    /\ last.op = "calculate_payoff"
    /\ last.ret = Num(0, 1)
    /\ SomeUpdateAtOrAfterExpiry(state_data)
    /\ \E i \in 1..Len(rec_underlying) : rec_underlying[i] > barrier
    /\ rec_underlying[Len(rec_underlying)] < barrier
    /\ Call(state_data.state) # Num(0, 1)
\* C11: after Process.reset() the process state is (starting value, 0),
\* whatever calls preceded it; the starting value is never reassigned.
C11_ResetRestoresStart ==
    [][/\ process_spot' = process_spot
       /\ process_last'.op = "reset" =>
              (process_state'.spot = process_spot /\ process_state'.time = 0)]_vars

\* C11 witness: reset() has brought a process back to (starting value, 0).
C11_Witness ==
    /\ process_last.op = "reset"
    /\ process_state = ProcessStateData(process_spot, 0)
    /\ process_kind = "BlackScholesProcess"

\* C12: update(time, norms) of a concrete process evolves the stored value
\* over the increment time - state.time, stores (result, time) and returns
\* the result.
C12_UpdateIsIncremental ==
    [][(process_last'.op = "update" /\ process_kind = "BlackScholesProcess") =>
          LET st == evolve(process_state.spot,
                           process_last'.time - process_state.time,
                           process_last'.value)
          IN /\ process_last'.ret = Float(st)
             /\ process_state' = ProcessStateData(st, process_last'.time)]_vars

\* C12 witness: update(1, 0) then update(2, 1): the state at time 2 is one
\* step of increment 1 away from the state at time 1.
C12_Witness ==
    /\ process_kind = "BlackScholesProcess"
    /\ process_last.op = "update"
    /\ process_last.value = 1
    /\ process_state = ProcessStateData(process_spot + 1, 2)

\* C13: update(time, norms) with time < state.time raises an error and leaves
\* the process state unchanged.
C13_NegativeStepRaises ==
    [][(process_last'.op = "update" /\ process_last'.time < process_state.time) =>
          (IsError(process_last'.ret) /\ process_state' = process_state)]_vars
\* C14: mc_path_dependent with n_paths <= 0 (zero or negative) fails with an
\* error instead of returning a price: it never returns when n_paths <= 0.
C14_NonPositivePathsFail == n_paths <= 0 => pc # "returned"

\* the calls of the current path follow the protocol: process.reset,
\* option_state.reset, then for each required time, in list order, one draw,
\* process.update(t, draw) and option_state.update(t, returned value), and
\* after the last required time one calculate_payoff and nothing more
FollowsProtocol(tr) ==
    /\ Len(tr) <= 3 + 3 * Len(times)
    /\ \A j \in 1..Len(tr) :
           IF j = 1 THEN tr[j].ev = "process.reset"
           ELSE IF j = 2 THEN tr[j].ev = "option_state.reset"
           ELSE LET idx == ((j - 3) \div 3) + 1
                    phase == (j - 3) % 3
                IN IF idx > Len(times)
                   THEN tr[j].ev = "option_state.calculate_payoff"
                   ELSE IF phase = 0 THEN tr[j].ev = "np.random.normal"
                   ELSE IF phase = 1
                   THEN /\ tr[j].ev = "process.update"
                        /\ tr[j].t = times[idx]
                        /\ tr[j].x = tr[j - 1].y
                   ELSE /\ tr[j].ev = "option_state.update"
                        /\ tr[j].t = times[idx]
                        /\ tr[j].x = tr[j - 1].y

\* the current path has made all its calls
PathComplete(tr) ==
    /\ Len(tr) = 3 + 3 * Len(times)
    /\ tr[Len(tr)].ev = "option_state.calculate_payoff"

\* C15: driver protocol.  The calls of every path follow the protocol, a path
\* starts only when no path is open or the previous one has called
\* calculate_payoff, and a call that returns has run exactly n_paths paths
\* (none when n_paths is negative), each one to its calculate_payoff.
C15_DriverProtocol ==
    [][/\ FollowsProtocol(trace')
       /\ (trace' # trace /\ Len(trace') = 1) => (trace = <<>> \/ PathComplete(trace))
       /\ pc' = "returned" =>
              /\ path_index' = (IF n_paths > 0 THEN n_paths ELSE 0)
              /\ Len(path_values') = path_index'
              /\ (path_index' > 0 => PathComplete(trace'))]_vars

\* a call over two required times has returned after two complete paths
C15_Witness ==
    /\ pc = "returned"
    /\ n_paths = 2
    /\ Len(times) = 2
    /\ PathComplete(trace)
    /\ trace[4].ev = "process.update" /\ trace[4].x = 1 /\ trace[4].y = S_0 + 1
    /\ trace[5].ev = "option_state.update" /\ trace[5].x = S_0 + 1

\* C16: within each path the required times are presented to process.update
\* and option_state.update in ascending order, whatever order
\* option_state.times lists them in: of two update calls of the current path,
\* the earlier one has the smaller or equal time.
C16_TimesPresentedAscending ==
    \A i, j \in 1..Len(trace) :
        (/\ i < j
         /\ trace[i].ev \in {"process.update", "option_state.update"}
         /\ trace[j].ev \in {"process.update", "option_state.update"})
        => trace[i].t <= trace[j].t

\* the numerator of the sum of the values vals[i..], over the denominator d
RECURSIVE SumOver(_, _, _)
SumOver(vals, i, d) ==
    IF i > Len(vals) THEN 0
    ELSE vals[i].num * (d \div vals[i].den) + SumOver(vals, i + 1, d)

\* a common denominator of the values
RECURSIVE CommonDen(_, _)
CommonDen(vals, i) ==
    IF i > Len(vals) THEN 1 ELSE vals[i].den * CommonDen(vals, i + 1)

\* the sum of the per-path payoffs divided by n, as a number
AverageOf(vals, n) ==
    IF \E i \in 1..Len(vals) : vals[i] = NaN THEN NaN
    ELSE Num(SumOver(vals, 1, CommonDen(vals, 1)), CommonDen(vals, 1) * n)

\* C17: for n_paths > 0 a call that returns gives (sum over all paths of the
\* per-path calculate_payoff() results / n_paths) * discount(expiry): each of
\* the n_paths paths contributed its payoff once, and the discount factor of
\* the expiry is applied once.
C17_PriceIsDiscountedAverage ==
    [][/\ (pc' = "returned" /\ n_paths > 0) =>
              /\ Len(path_values') = n_paths
              /\ result'.ret = AverageOf(path_values', n_paths)
              /\ result'.df = discount(expiry)
       /\ (pc = "for_t" /\ pc' = "for_i") =>
              path_values' = Append(path_values, calculate_payoff(state_data))]_vars

\* two paths with different non-zero payoffs, 1/2 and 3/2, give the price
\* (1/2 + 3/2) / 2 discounted from the expiry
C17_Witness ==
    /\ pc = "returned"
    /\ n_paths = 2
    /\ kind = "AsianState"
    /\ path_values = <<Num(1, 2), Num(3, 2)>>
    /\ result = [ret |-> Num(1, 1), df |-> <<expiry>>]

\* do_one_path has presented every required time and is about to call
\* calculate_payoff
WalkedAllTimes == pc = "for_t" /\ times_exhausted(times, time_index)

\* C18 as stated: whenever the driver has walked the full list of required
\* times of a path, has_expired() is true, for any required times and expiry.
C18_Original == WalkedAllTimes => has_expired(state_data)

\* C18: for required times whose largest is at or after the expiry, whenever
\* the driver has walked the full list of required times of a path,
\* has_expired() is true, and the calculate_payoff() call that follows does
\* not raise the not-expired RuntimeError (for a concrete option state it
\* returns the path's value); when every required time is before the expiry
\* that call raises it.
C18_ExpiredAfterFullWalk ==
    [][WalkedAllTimes =>
           /\ has_expired(state_data) = (max(times) >= expiry)
           /\ (result'.ret = Raise("RuntimeError")) = (max(times) < expiry)
           /\ (max(times) >= expiry /\ kind \in ConcreteKinds) => pc' = "for_i"]_vars

\* the full walk of the times <<2, 1>> of an option expiring at 2 has ended
\* and calculate_payoff has returned the path's value
C18_Witness ==
    /\ times = <<2, 1>>
    /\ expiry = 2
    /\ kind = "MaxState"
    /\ pc = "for_i"
    /\ Len(path_values) = 1
    /\ Len(trace) = 9
    /\ has_expired(state_data)

\* the error that the step about to be taken raises, None when it raises none
PendingError ==
    IF pc = "process_update"
    THEN LET r == Process_update(process_state, times[time_index + 1], std_norm)
         IN IF IsError(r.ret) THEN r.ret ELSE None
    ELSE IF pc = "option_update"
    THEN LET r == update(state_data, times[time_index + 1], St)
         IN IF IsError(r.ret) THEN r.ret ELSE None
    ELSE IF WalkedAllTimes /\ IsError(calculate_payoff(state_data))
    THEN calculate_payoff(state_data)
    ELSE None

\* C19: an error raised inside the per-path loop, by process.update,
\* option_state.update or calculate_payoff, leaves mc_path_dependent at once
\* as that error: the call ends with it, without a price, and no step of any
\* path is taken afterwards.
C19_ErrorsPropagate ==
    [][/\ pc # "raised"
       /\ PendingError # None =>
              /\ pc' = "raised"
              /\ result' = [ret |-> PendingError, df |-> <<>>]
              /\ path_index' = path_index
              /\ path_values' = path_values
              /\ running_sum' = running_sum]_vars

\* the first of two paths has raised the not-expired RuntimeError of
\* calculate_payoff and the call has ended with it
C19_Witness ==
    /\ pc = "raised"
    /\ result = [ret |-> Raise("RuntimeError"), df |-> <<>>]
    /\ n_paths = 2
    /\ path_index = 1
    /\ path_values = <<>>
    /\ time_index = Len(times)

\* C20: in every state reachable by any sequence of update() calls (and
\* resets), each recorded time is one of the required fixing times and appears
\* at most once among the recorded times.
C20_RecordedTimesRequiredAndUnique ==
    \A i \in 1..Len(rec_updates) :
        /\ In(rec_updates[i], times)
        /\ \A j \in 1..Len(rec_updates) : rec_updates[j] = rec_updates[i] => j = i

\* two times are recorded and the last call was an update at a recorded time
\* with another value, which the record does not hold
C20_Witness ==
    /\ Len(rec_updates) = 2
    /\ last.op = "update"
    /\ \E i \in 1..Len(rec_updates) :
           rec_updates[i] = last.time /\ rec_underlying[i] # last.value

\* C21: the record's observed times are strictly increasing in every state
\* reachable by any sequence of update() calls: an update whose time is
\* smaller than an already recorded time is not appended after it.
C21_RecordedTimesIncreasing ==
    \A i, j \in 1..Len(rec_updates) : i < j => rec_updates[i] < rec_updates[j]

\* C22: within one path of mc_path_dependent, every process.update call that
\* returns leaves the process state's time strictly larger than it was.
C22_ProcessTimeIncreases ==
    [][(pc = "process_update" /\ pc' = "option_update") =>
           process_state'.time > process_state.time]_vars

\* C23: update() on the abstract base Process raises NotImplementedError (the
\* evolve() it calls raises it) and leaves the process state, value and time,
\* as before the call, also for a reference held to it.
C23_AbstractUpdateRaises ==
    [][(process_kind = "Process" /\ process_last'.op = "update") =>
           /\ process_last'.ret = Raise("NotImplementedError")
           /\ process_state' = process_state
           /\ process_held' = process_held]_vars

\* update(2, 1) was called on Process(Process.StateData(spot, 1)): it raised
\* and the state is still (spot, 1)
C23_Witness ==
    /\ process_kind = "Process"
    /\ process_last = Call_("update", 2, 1, Raise("NotImplementedError"))
    /\ process_state = ProcessStateData(process_spot, 1)

\* C24: is_payoff_active() returns True for every option state that does not
\* override it (OptionState, AsianState, MaxState) and raises
\* NotImplementedError on the BarrierState base type; calculate_payoff() on a
\* plain BarrierState raises NotImplementedError when it has expired and the
\* not-expired RuntimeError when it has not.
C24_DefaultAndAbstractActivation ==
    /\ kind \in PlainKinds =>
           /\ is_payoff_active(state_data) = True
           /\ last.op = "is_payoff_active" => last.ret = True
    /\ kind = "BarrierState" =>
           /\ is_payoff_active(state_data) = Raise("NotImplementedError")
           /\ last.op = "is_payoff_active" => last.ret = Raise("NotImplementedError")
           /\ calculate_payoff(state_data) =
                  (IF has_expired(state_data) THEN Raise("NotImplementedError")
                   ELSE Raise("RuntimeError"))
           /\ last.op = "calculate_payoff" =>
                  last.ret = (IF has_expired(state_data)
                              THEN Raise("NotImplementedError")
                              ELSE Raise("RuntimeError"))

\* calculate_payoff() was called on an expired plain BarrierState whose state
\* variable is set, and raised NotImplementedError
C24_Witness ==
    /\ kind = "BarrierState"
    /\ has_expired(state_data)
    /\ IsNum(state_data.state)
    /\ last = Call_("calculate_payoff", 0, 0, Raise("NotImplementedError"))

\* the recorded times are all the required times, recorded in increasing order
AllObservedInOrder ==
    /\ AllRequiredObserved(state_data)
    /\ \A i, j \in 1..Len(rec_updates) : i < j => rec_updates[i] < rec_updates[j]

\* the arithmetic mean of the recorded underlying values
MeanOfRecorded == Num(SumFrom(rec_underlying, 1), Len(rec_underlying))

\* C25 as stated: for AsianState, once all required times have been observed
\* in order, the state variable is the mean of the recorded values and
\* calculate_payoff() returns the payoff of that mean.
C25_Original ==
    (kind = "AsianState" /\ AllObservedInOrder) =>
        /\ state_data.state = MeanOfRecorded
        /\ calculate_payoff(state_data) = Call(MeanOfRecorded)

\* C25: for AsianState, whenever has_expired() is true (in particular once
\* all required times have been observed and the expiry is not after the
\* largest of them), the state variable is the arithmetic mean of all recorded
\* underlying values and calculate_payoff() returns the payoff function applied
\* to that mean; while has_expired() is false the state variable is None and
\* calculate_payoff() raises RuntimeError, also with every required time
\* observed.
C25_AsianMean ==
    kind = "AsianState" =>
        IF has_expired(state_data)
        THEN /\ state_data.state = MeanOfRecorded
             /\ calculate_payoff(state_data) = Call(MeanOfRecorded)
             /\ last.op = "calculate_payoff" => last.ret = Call(MeanOfRecorded)
        ELSE /\ state_data.state = None
             /\ calculate_payoff(state_data) = Raise("RuntimeError")

\* the values K+1 and K+2 were observed at the required times 1 and 2: the
\* state variable is K + 3/2 and the payoff returned is 3/2
C25_Witness ==
    /\ kind = "AsianState"
    /\ AllObservedInOrder
    /\ rec_underlying = <<K + 1, K + 2>>
    /\ state_data.state = Num(2 * K + 3, 2)
    /\ last = Call_("calculate_payoff", 0, 0, Num(3, 2))

\* the largest of the recorded underlying values
MaxOfRecorded ==
    CHOOSE m \in {rec_underlying[i] : i \in 1..Len(rec_underlying)} :
        \A i \in 1..Len(rec_underlying) : rec_underlying[i] <= m

\* C26 as stated: for MaxState, once all required times have been observed,
\* the state variable is the maximum of the recorded values and
\* calculate_payoff() returns the payoff of that maximum.
C26_Original ==
    (kind = "MaxState" /\ AllRequiredObserved(state_data)) =>
        /\ state_data.state = Num(MaxOfRecorded, 1)
        /\ calculate_payoff(state_data) = Call(Num(MaxOfRecorded, 1))

\* C26: for MaxState, whenever has_expired() is true (in particular once all
\* required times have been observed and the expiry is not after the largest
\* of them), the state variable is the maximum of all recorded underlying
\* values, wherever in the record the maximum stands, and calculate_payoff()
\* returns the payoff function applied to it; while has_expired() is false the
\* state variable is None and calculate_payoff() raises RuntimeError, also
\* with every required time observed.
C26_MaxOfValues ==
    kind = "MaxState" =>
        IF has_expired(state_data)
        THEN /\ state_data.state = Num(MaxOfRecorded, 1)
             /\ calculate_payoff(state_data) = Call(Num(MaxOfRecorded, 1))
             /\ last.op = "calculate_payoff" => last.ret = Call(Num(MaxOfRecorded, 1))
        ELSE /\ state_data.state = None
             /\ calculate_payoff(state_data) = Raise("RuntimeError")

\* the maximum K+3 was observed first and K+1 last: the state variable is
\* K+3 and the payoff returned is 3
C26_Witness ==
    /\ kind = "MaxState"
    /\ AllRequiredObserved(state_data)
    /\ rec_underlying = <<K + 3, K + 1>>
    /\ state_data.state = Num(K + 3, 1)
    /\ last = Call_("calculate_payoff", 0, 0, Num(3, 1))

\* C27 as stated: the record is replaced wholesale on every accepted
\* update(): a reference to the record taken before an accepted update still
\* shows the old contents after it.
C27_Original ==
    [][(last'.op = "update" /\ update_accepts(state_data, last'.time)) =>
           held'.shows = held.shows]_vars

\* C27: the record is replaced wholesale on reset() only; an accepted update()
\* changes the record and its lists in place, so a reference to the current
\* record taken before the update shows the new contents after it (the two
\* appends also when calculate_state_variable() raises), while a reference to
\* a record that reset() has replaced keeps showing its contents.
C27_UpdateMutatesRecordInPlace ==
    [][/\ last'.op = "update" =>
              /\ held'.current = held.current
              /\ held.current => held'.shows = <<state_data'>>
              /\ ~held.current => held'.shows = held.shows
       /\ last'.op = "reset" =>
              /\ ~held'.current
              /\ held'.shows = held.shows]_vars

\* a reference was taken to the empty record, and an update accepted after
\* that has appended its time and value to the record the reference shows
C27_Witness ==
    /\ last.op = "update"
    /\ held.current
    /\ Len(rec_updates) = 1
    /\ rec_updates[1] = last.time
    /\ rec_underlying[1] = last.value
    /\ held.shows = <<state_data>>

\* C28: a Process state snapshot is never changed in place: reset() and
\* update() each install a newly created (value, time) snapshot, so a snapshot
\* a caller obtained before the call shows the same value and time after it
\* and, unless update() raised, is no longer the process's state.
C28_SnapshotsNotMutated ==
    [][process_last'.op \in {"reset", "update"} =>
           /\ process_held'.shows = process_held.shows
           /\ (process_last'.op = "reset" \/ ~IsError(process_last'.ret)) =>
                  ~process_held'.current
           /\ (process_last'.op = "update" /\ IsError(process_last'.ret)) =>
                  process_held' = process_held]_vars

\* a snapshot taken at time 1 still shows its value and time 1 after an
\* update to time 2 has moved the process to another value
C28_Witness ==
    /\ process_kind = "BlackScholesProcess"
    /\ process_last.op = "update"
    /\ process_held.shows # <<>>
    /\ process_held.shows[1].time = 1
    /\ process_state.time = 2
    /\ process_state.spot # process_held.shows[1].spot

\* C29: in every reachable state the observed times and the observed values
\* have the same length, and observed value i is the underlying value passed
\* to the accepted update() call whose time is observed time i: an accepted
\* update appends its time and its value at the same position, and no other
\* call but reset(), which empties both, changes either list.
C29_ValuesParallelToTimes ==
    [][/\ Len(rec_updates') = Len(rec_underlying')
       /\ last'.op = "update" =>
              IF update_accepts(state_data, last'.time)
              THEN /\ rec_updates' = Append(rec_updates, last'.time)
                   /\ rec_underlying' = Append(rec_underlying, last'.value)
              ELSE /\ rec_updates' = rec_updates
                   /\ rec_underlying' = rec_underlying
       /\ last'.op = "reset" => (rec_updates' = <<>> /\ rec_underlying' = <<>>)
       /\ last'.op \notin {"update", "reset"} =>
              (rec_updates' = rec_updates /\ rec_underlying' = rec_underlying)]_vars

\* time 2 was recorded with K+1 and then time 1 with K+3
C29_Witness ==
    /\ rec_updates = <<2, 1>>
    /\ rec_underlying = <<K + 1, K + 3>>
    /\ last = Call_("update", 1, K + 3, None)

\* mc_path_dependent has returned or raised
Terminated == pc \in {"returned", "raised"}

\* C30 as stated: with n_paths > 0 the call has consumed exactly
\* n_paths * |required times| random draws when it ends.
C30_Original ==
    (n_paths > 0 /\ Terminated) => n_draws = n_paths * Len(times)

\* C30: mc_path_dependent always terminates.  With n_paths > 0, a call that
\* returns has consumed exactly n_paths * |required times| random draws, one
\* per required time per path, also for times the option state ignores as
\* duplicates; a call that ends with an error raised in a path ends in its
\* first path, having consumed at most |required times| draws.
C30_TerminatesAfterAllDraws ==
    /\ <>Terminated
    /\ [](n_paths > 0 =>
              /\ pc = "returned" => n_draws = n_paths * Len(times)
              /\ pc = "raised" => (path_index = 1 /\ n_draws <= Len(times))
              /\ n_draws <= n_paths * Len(times))

\* two paths over the required times <<1, 1>>, the second of which the option
\* state ignores, have consumed four draws
C30_Witness ==
    /\ pc = "returned"
    /\ n_paths = 2
    /\ times = <<1, 1>>
    /\ rec_updates = <<1>>
    /\ n_draws = 4

C34_StateSetExactlyWhenExpired ==
    kind \in ConcreteKinds =>
        /\ (state_data.state # None) = has_expired(state_data)
        /\ calculate_payoff(state_data) # Raise("TypeError")
        /\ last.op = "calculate_payoff" => last.ret # Raise("TypeError")

\* calculate_payoff() was called on an expired MaxState with one recorded
\* value and returned a number
C34_Witness ==
    /\ kind = "MaxState"
    /\ last.op = "calculate_payoff"
    /\ IsNum(last.ret)
    /\ Len(rec_updates) = 1
    /\ state_data.state = Num(rec_underlying[1], 1)

\* C35: OptionState.update is atomic on failure: if calculate_state_variable()
\* raises during an update that reaches expiry, the record's observed times
\* and observed values are left as they were before the call and
\* has_expired() keeps its previous value.
C35_UpdateAtomicOnFailure ==
    [][(last'.op = "update" /\ IsError(last'.ret)) =>
           /\ rec_updates' = rec_updates
           /\ rec_underlying' = rec_underlying
           /\ has_expired(state_data') = has_expired(state_data)]_vars

\* C38: calculate_payoff() evaluates is_payoff_active() only when
\* has_expired() is true, and an expired record is not empty, so
\* calculate_payoff never raises the ValueError of max()/min() over an empty
\* list, in any state reachable by reset() and update(); on an empty record it
\* raises the not-expired RuntimeError.
C38_NoBarrierTestOnEmptyRecord ==
    /\ has_expired(state_data) => Len(rec_underlying) > 0
    /\ calculate_payoff(state_data) # Raise("ValueError")
    /\ last.op = "calculate_payoff" => last.ret # Raise("ValueError")
    /\ Len(rec_underlying) = 0 => calculate_payoff(state_data) = Raise("RuntimeError")

\* calculate_payoff() was called on the empty record of a barrier option,
\* where is_payoff_active() itself raises ValueError, and raised RuntimeError
C38_Witness ==
    /\ kind \in BarrierKinds \ {"BarrierState"}
    /\ rec_underlying = <<>>
    /\ is_payoff_active(state_data) = Raise("ValueError")
    /\ last = Call_("calculate_payoff", 0, 0, Raise("RuntimeError"))

\* C39: calculate_payoff() is read-only: it leaves the record (times, values,
\* state variable) unchanged, in an expired state as in any other, and a
\* second call that follows without an update() or reset() in between returns
\* what the first returned.
C39_PayoffIsReadOnly ==
    [][\/ last'.op # "calculate_payoff"
       \/ /\ state_data' = state_data
          /\ held' = held
          /\ last'.ret = calculate_payoff(state_data')
          /\ last.op = "calculate_payoff" => last'.ret = last.ret]_vars

\* calculate_payoff() returned 3 on an expired record that still holds its
\* two values
C39_Witness ==
    /\ last = Call_("calculate_payoff", 0, 0, Num(3, 1))
    /\ has_expired(state_data)
    /\ Len(rec_updates) = 2
    /\ state_data.state = Num(K + 3, 1)

\* the knock-out and the knock-in variant of a direction on the current record
OutActive(dir) ==
    is_payoff_active_of(IF dir = "Up" THEN "UpAndOut" ELSE "DownAndOut", state_data)
InActive(dir) ==
    is_payoff_active_of(IF dir = "Up" THEN "UpAndIn" ELSE "DownAndIn", state_data)
OutPayoff(dir) ==
    calculate_payoff_of(IF dir = "Up" THEN "UpAndOut" ELSE "DownAndOut", state_data)
InPayoff(dir) ==
    calculate_payoff_of(IF dir = "Up" THEN "UpAndIn" ELSE "DownAndIn", state_data)

\* max for Up, min for Down, of the recorded values
Extremum(dir) ==
    LET vals == {rec_underlying[i] : i \in 1..Len(rec_underlying)}
    IN IF dir = "Up"
       THEN CHOOSE m \in vals : \A v \in vals : v <= m
       ELSE CHOOSE m \in vals : \A v \in vals : m <= v

\* C37: for the same barrier level and the same non-empty observed values,
\* the knock-out and the knock-in variant of one direction are never both
\* active, and both are inactive exactly when the extremum (max for Up, min
\* for Down) equals the barrier; outside that case, on an expired record, the
\* out payoff plus the in payoff equals the payoff of the last observed value.
C37_OutAndInComplementary ==
    (kind \in BarrierKinds /\ Len(rec_underlying) > 0) =>
        \A dir \in {"Up", "Down"} :
            /\ ~(OutActive(dir) = True /\ InActive(dir) = True)
            /\ (OutActive(dir) = False /\ InActive(dir) = False)
                   <=> (Extremum(dir) = barrier)
            /\ (has_expired(state_data) /\ Extremum(dir) # barrier) =>
                   Add(OutPayoff(dir), InPayoff(dir))
                       = Call(Num(rec_underlying[Len(rec_underlying)], 1))

\* an expired up-and-in option whose values went above the barrier and ended
\* at K+3: the in variant pays 3 and the out variant pays 0
C37_Witness ==
    /\ kind = "UpAndIn"
    /\ Len(rec_underlying) = 2
    /\ Extremum("Up") > barrier
    /\ last = Call_("calculate_payoff", 0, 0, Num(3, 1))
    /\ InPayoff("Up") = Num(3, 1)
    /\ OutPayoff("Up") = Num(0, 1)

\* C33: for options that keep the default is_payoff_active (AsianState,
\* MaxState, and the base OptionState), the OptionState with the
\* is_payoff_active hook and the lecture notebook's OptionState behave
\* identically: after every sequence of reset/update/calculate_payoff calls
\* they hold the same record, and the last call returned the same value or
\* raised the same error on both.
C33_SameAsLectureOptionState ==
    /\ lecture.sd = state_data
    /\ lecture.ret = last.ret
    /\ lecture_calculate_payoff(lecture.sd) = calculate_payoff(state_data)

\* both AsianStates returned 3/2 for the values K+1 and K+2
C33_Witness ==
    /\ kind = "AsianState"
    /\ last = Call_("calculate_payoff", 0, 0, Num(3, 2))
    /\ lecture.ret = Num(3, 2)
    /\ lecture.sd.underlying = <<K + 1, K + 2>>

\* the draws of the current path, in the order they were made
IsDraw(e) == e.ev = "np.random.normal"
DrawsOf(tr) ==
    LET d == SelectSeq(tr, IsDraw) IN [i \in 1..Len(d) |-> d[i].y]

\* what do_one_path returns or raises for the draws zs when the process starts
\* at ps and the option record at sd, from the i-th required time on
RECURSIVE PathFrom(_, _, _, _)
PathFrom(i, ps, sd, zs) ==
    IF i > Len(times) THEN calculate_payoff(sd)
    ELSE LET p == Process_update(ps, times[i], zs[i])
         IN IF IsError(p.ret) THEN p.ret
            ELSE LET u == update(sd, times[i], number(p.ret))
                 IN IF IsError(u.ret) THEN u.ret
                    ELSE PathFrom(i + 1, p.state, u.sd, zs)

\* the payoff of a path with the draws zs on a process at (initial value, 0)
\* and an empty record
FreshPathPayoff(zs) ==
    PathFrom(1, ProcessStateData(process_spot, 0), StateData(<<>>, <<>>, None), zs)

\* C36: path independence.  When a path of mc_path_dependent starts its walk
\* of the required times, the process state is (initial value, 0) and the
\* option record is empty, whatever state the two objects were in when
\* mc_path_dependent was called; the payoff (or error) of each path is the one
\* its own draws give on fresh objects, so the returned price is a function of
\* the draws alone.
C36_PathIndependence ==
    [][/\ (pc' = "for_t" /\ time_index' = 0) =>
              /\ process_state' = ProcessStateData(process_spot, 0)
              /\ state_data' = StateData(<<>>, <<>>, None)
       /\ (pc = "for_t" /\ pc' = "for_i") =>
              path_values'[Len(path_values')] = FreshPathPayoff(DrawsOf(trace))
       /\ (pc = "for_t" /\ pc' = "raised") =>
              result'.ret = FreshPathPayoff(DrawsOf(trace))]_vars

\* a call on a process left at time 2 and an option state that had recorded
\* time 1 has returned a price that is not zero
C36_Witness ==
    /\ pc = "returned"
    /\ held.shows = <<update(StateData(<<>>, <<>>, None), 1, K + 3).sd>>
    /\ process_held.shows = <<ProcessStateData(S_0 + 2, 2)>>
    /\ times = <<1, 2>>
    /\ IsNum(result.ret)
    /\ result.ret # Num(0, 1)

\* the l-th call has a path whose result is not the one its own draws give on
\* fresh objects: a path_value that differs, an error before all its times
\* were walked, or an error the sequential run does not raise
PathDisturbed(l) ==
    \/ \E k \in 1..Len(loops[l].done) :
           loops[l].done[k].path_value # FreshPathPayoff(loops[l].done[k].zs)
    \/ /\ loops[l].pc = "raised"
       /\ \/ Len(loops[l].zs) < Len(times)
          \/ loops[l].result.ret # FreshPathPayoff(loops[l].zs)

\* C32: two interleaved calls of mc_path_dependent.  A path whose result is
\* not the payoff of the sequential run on its own draws occurs only when the
\* two calls work on the same Process and OptionState objects; when each call
\* has its own pair, every interleaving gives every path the sequential payoff.
C32_DisturbedOnlyWhenShared ==
    \A l \in 1..2 : PathDisturbed(l) => shared

\* the bad state of shared objects: the first call walked all its times, the
\* second call's reset() emptied the record, and the first call's
\* calculate_payoff() raised the not-expired error, which its own draws do not
\* give on fresh objects
C32_Witness ==
    /\ shared
    /\ loops[1].pc = "raised"
    /\ loops[1].result.ret = Raise("RuntimeError")
    /\ Len(loops[1].zs) = Len(times)
    /\ IsNum(FreshPathPayoff(loops[1].zs))
    /\ loops[2].pc = "for_t"
    /\ objs[1].state_data = StateData(<<>>, <<>>, None)

====
